---- MODULE Spec2Model ----
(***************************************************************************)
(* The TipTap markdown editor (src/unnamed/part_000) and its toolbar       *)
(* (MarkdownToolbar.tsx) as a state machine.                               *)
(*                                                                         *)
(* Text (markdown, HTML) is a sequence of tokens: one-character strings,   *)
(* and for HTML also tags such as "<p>" and "<br>".  The document tree is  *)
(* a sequence of paragraphs, each a sequence of inline nodes               *)
(* [ch |-> character or "<br>", marks |-> set of mark names].              *)
(*                                                                         *)
(* The libraries the component calls (marked, turndown, the editor's HTML  *)
(* parser and serializer) are modelled on the fragment: paragraphs, hard   *)
(* breaks, bold / italic / strike marks, backslash escapes.                *)
(***************************************************************************)
EXTENDS Integers, Sequences, FiniteSets, TLC

SP == " "
NL == "\n"
STAR == "*"
TILDE == "~"
BSL == "\\"
BR == "<br>"
POpen == "<p>"
PClose == "</p>"

Ws == {SP, NL}
TextChars == {"a", SP, STAR, TILDE, BSL}
Tags == {"<strong>", "</strong>", "<em>", "</em>", "<s>", "</s>"}
MarkOrder == <<"bold", "italic", "strike">>
Marks == {"bold", "italic", "strike"}

OpenTag(m) == CASE m = "bold" -> "<strong>" [] m = "italic" -> "<em>" [] OTHER -> "<s>"
CloseTag(m) == CASE m = "bold" -> "</strong>" [] m = "italic" -> "</em>" [] OTHER -> "</s>"
IsOpenTag(t) == t \in {"<strong>", "<em>", "<s>"}
IsCloseTag(t) == t \in {"</strong>", "</em>", "</s>"}
MarkOfTag(t) == CASE t \in {"<strong>", "</strong>"} -> "bold"
                  [] t \in {"<em>", "</em>"} -> "italic"
                  [] OTHER -> "strike"
IsChar(t) == t \notin Tags /\ t # BR /\ t # POpen /\ t # PClose

(* ---------------- sequences of tokens ---------------- *)

Sub(s, i, j) == IF i > j THEN <<>> ELSE SubSeq(s, i, j)
From(s, i) == Sub(s, i, Len(s))
StartsWith(s, i, d) == i + Len(d) - 1 <= Len(s) /\ SubSeq(s, i, i + Len(d) - 1) = d
Contains(s, d) == \E i \in 1..(Len(s) - Len(d) + 1) : StartsWith(s, i, d)

RECURSIVE Flatten(_)
Flatten(ss) == IF ss = <<>> THEN <<>> ELSE ss[1] \o Flatten(Tail(ss))

\* String.prototype.trim
RECURSIVE TrimLeft(_)
TrimLeft(s) == IF s # <<>> /\ s[1] \in Ws THEN TrimLeft(Tail(s)) ELSE s
RECURSIVE TrimRight(_)
TrimRight(s) == IF s # <<>> /\ s[Len(s)] \in Ws THEN TrimRight(Sub(s, 1, Len(s) - 1)) ELSE s
Trim(s) == TrimLeft(TrimRight(s))

RECURSIVE TrimLeftNL(_)
TrimLeftNL(s) == IF s # <<>> /\ s[1] = NL THEN TrimLeftNL(Tail(s)) ELSE s
RECURSIVE TrimRightNL(_)
TrimRightNL(s) == IF s # <<>> /\ s[Len(s)] = NL THEN TrimRightNL(Sub(s, 1, Len(s) - 1)) ELSE s

\* String.prototype.split("\n"): the empty string splits to one empty line
RECURSIVE SplitLines(_)
SplitLines(s) ==
  IF \A i \in 1..Len(s) : s[i] # NL THEN <<s>>
  ELSE LET k == CHOOSE i \in 1..Len(s) : s[i] = NL /\ \A j \in 1..(i - 1) : s[j] # NL
       IN  <<Sub(s, 1, k - 1)>> \o SplitLines(From(s, k + 1))

\* Array.prototype.join("\n")
RECURSIVE JoinLines(_)
JoinLines(ls) ==
  IF ls = <<>> THEN <<>>
  ELSE IF Len(ls) = 1 THEN ls[1]
  ELSE ls[1] \o <<NL>> \o JoinLines(Tail(ls))

(* ---------------- the document tree ---------------- *)

EmptyDoc == << <<>> >>
Node(c, ms) == [ch |-> c, marks |-> ms]
\* Node.textContent: the text of every text node, no separators, leaves add nothing
RECURSIVE BlockText(_)
BlockText(items) ==
  IF items = <<>> THEN <<>>
  ELSE (IF items[1].ch = BR THEN <<>> ELSE <<items[1].ch>>) \o BlockText(Tail(items))
TextContent(d) == Flatten([k \in 1..Len(d) |-> BlockText(d[k])])

SortedMarks(ms) == SelectSeq(MarkOrder, LAMBDA m : m \in ms)

(* ---------------- editor.getHTML ---------------- *)

\* the longest prefix of items whose (depth+1)-th mark is m
RECURSIVE RunLen(_, _, _)
RunLen(items, depth, m) ==
  IF items = <<>> THEN 0
  ELSE LET sm == SortedMarks(items[1].marks)
       IN  IF Len(sm) > depth /\ sm[depth + 1] = m
           THEN 1 + RunLen(Tail(items), depth, m) ELSE 0

\* the DOM serializer keeps a mark open while the next node's marks share the prefix
RECURSIVE Fragment(_, _)
Fragment(items, depth) ==
  IF items = <<>> THEN <<>>
  ELSE LET sm == SortedMarks(items[1].marks)
       IN  IF Len(sm) <= depth
           THEN <<items[1].ch>> \o Fragment(Tail(items), depth)
           ELSE LET m == sm[depth + 1]
                    n == RunLen(items, depth, m)
                IN  <<OpenTag(m)>> \o Fragment(Sub(items, 1, n), depth + 1)
                      \o <<CloseTag(m)>> \o Fragment(From(items, n + 1), depth)

GetHTML(d) == Flatten([k \in 1..Len(d) |-> <<POpen>> \o Fragment(d[k], 0) \o <<PClose>>])

(* ---------------- turndownService.turndown ---------------- *)

\* the token sequences between each <p> and its </p>
RECURSIVE BlocksOf(_)
BlocksOf(html) ==
  IF html = <<>> THEN <<>>
  ELSE LET k == CHOOSE i \in 1..Len(html) : html[i] = PClose /\ \A j \in 1..(i - 1) : html[j] # PClose
       IN  <<Sub(html, 2, k - 1)>> \o BlocksOf(From(html, k + 1))

\* prevText.data.replace(/ $/, ""): drop the space that ends the last text node
RECURSIVE StripTrailingSpace(_)
StripTrailingSpace(out) ==
  IF out = <<>> THEN <<>>
  ELSE LET t == out[Len(out)]
       IN  IF t \in Tags THEN StripTrailingSpace(Sub(out, 1, Len(out) - 1)) \o <<t>>
           ELSE IF t = SP THEN Sub(out, 1, Len(out) - 1)
           ELSE out

\* collapseWhitespace: runs of whitespace become one space; none at the start of
\* a block, after a space, after or before <br>, or at the end of a block
RECURSIVE Collapse(_, _, _)
Collapse(toks, out, drop) ==
  IF toks = <<>> THEN StripTrailingSpace(out)
  ELSE LET t == toks[1]
           rest == Tail(toks)
       IN  IF t \in Ws THEN Collapse(rest, IF drop THEN out ELSE out \o <<SP>>, TRUE)
           ELSE IF t = BR THEN Collapse(rest, StripTrailingSpace(out) \o <<BR>>, TRUE)
           ELSE IF t \in Tags THEN Collapse(rest, out \o <<t>>, drop)
           ELSE Collapse(rest, out \o <<t>>, FALSE)
CollapseWhitespace(toks) == Collapse(toks, <<>>, TRUE)

\* the index of the close tag matching the open tag at i - 1 (depth starts at 1)
RECURSIVE MatchClose(_, _, _)
MatchClose(toks, j, depth) ==
  IF j > Len(toks) THEN j
  ELSE IF IsOpenTag(toks[j]) THEN MatchClose(toks, j + 1, depth + 1)
  ELSE IF IsCloseTag(toks[j])
       THEN (IF depth = 1 THEN j ELSE MatchClose(toks, j + 1, depth - 1))
  ELSE MatchClose(toks, j + 1, depth)

ElementText(toks) == SelectSeq(toks, IsChar)

\* the "strikethrough" rule
StrikethroughReplacement(content) == <<TILDE, TILDE>> \o content \o <<TILDE, TILDE>>

\* the "italic" rule
ItalicReplacement(content) ==
  LET trimmed == Trim(content)
  IN  IF trimmed # <<>> THEN <<STAR>> \o trimmed \o <<STAR>> ELSE content

\* a strong rule that writes the other delimiter turndown knows
StrongUnderscore(content) ==
  IF Trim(content) = <<>> THEN <<>> ELSE <<"_", "_">> \o content \o <<"_", "_">>

\* turndown's built-in rule for <strong>
StrongReplacement(content) ==
  IF Trim(content) = <<>> THEN <<>> ELSE <<STAR, STAR>> \o content \o <<STAR, STAR>>

\* turndown's escapes of a text node, on this alphabet: \ and * everywhere, ~~~ at its start
EscapeChar(c) == IF c \in {BSL, STAR} THEN <<BSL, c>> ELSE <<c>>

RECURSIVE Process(_, _)
Process(toks, i) ==
  IF i > Len(toks) THEN <<>>
  ELSE LET t == toks[i]
       IN  IF t = BR THEN <<SP, SP, NL>> \o Process(toks, i + 1)
           ELSE IF IsOpenTag(t)
           THEN LET j == MatchClose(toks, i + 1, 1)
                    inner == Sub(toks, i + 1, j - 1)
                    text == ElementText(inner)
                    blank == (\A k \in 1..Len(text) : text[k] \in Ws) /\ ~Contains(inner, <<BR>>)
                    leading == IF text # <<>> /\ text[1] \in Ws THEN <<SP>> ELSE <<>>
                    trailing == IF Trim(text) # <<>> /\ text[Len(text)] \in Ws THEN <<SP>> ELSE <<>>
                    processed == Process(inner, 1)
                    content == IF leading # <<>> \/ trailing # <<>> THEN Trim(processed) ELSE processed
                    replacement == IF blank THEN <<>>
                                   ELSE IF t = "<strong>" THEN StrongReplacement(content)
                                   ELSE IF t = "<em>" THEN ItalicReplacement(content)
                                   ELSE StrikethroughReplacement(content)
                IN  leading \o replacement \o trailing \o Process(toks, j + 1)
           ELSE IF IsCloseTag(t) THEN Process(toks, i + 1)
           ELSE LET textStart == i = 1 \/ ~IsChar(toks[i - 1])
                    fence == textStart /\ StartsWith(toks, i, <<TILDE, TILDE, TILDE>>)
                IN  (IF fence THEN <<BSL>> ELSE <<>>) \o EscapeChar(t) \o Process(toks, i + 1)

\* paragraphs are joined by one blank line; an empty paragraph adds nothing
RECURSIVE JoinBlocks(_)
JoinBlocks(cs) ==
  IF cs = <<>> THEN <<>>
  ELSE IF Len(cs) = 1 THEN cs[1]
  ELSE cs[1] \o <<NL, NL>> \o JoinBlocks(Tail(cs))

Turndown(html) ==
  LET blocks == BlocksOf(html)
      contents == [k \in 1..Len(blocks) |->
                     TrimLeftNL(TrimRightNL(Process(CollapseWhitespace(blocks[k]), 1)))]
      kept == SelectSeq(contents, LAMBDA c : c # <<>>)
  IN  TrimRight(TrimLeftNL(JoinBlocks(kept)))

(* ---------------- the cleanup pass of getMarkdownFromEditor ---------------- *)

RECURSIVE SkipWs(_, _)
SkipWs(s, j) == IF j <= Len(s) /\ s[j] \in Ws THEN SkipWs(s, j + 1) ELSE j

\* s.replace(/d\s+/g, d): matches are found left to right and do not overlap
RECURSIVE RemoveSpaceAfter(_, _, _)
RemoveSpaceAfter(s, i, d) ==
  IF i > Len(s) THEN <<>>
  ELSE IF StartsWith(s, i, d) /\ i + Len(d) <= Len(s) /\ s[i + Len(d)] \in Ws
       THEN d \o RemoveSpaceAfter(s, SkipWs(s, i + Len(d)), d)
  ELSE <<s[i]>> \o RemoveSpaceAfter(s, i + 1, d)

\* s.replace(/\s+d/g, d)
RECURSIVE RemoveSpaceBefore(_, _, _)
RemoveSpaceBefore(s, i, d) ==
  IF i > Len(s) THEN <<>>
  ELSE IF s[i] \in Ws /\ StartsWith(s, SkipWs(s, i), d)
       THEN d \o RemoveSpaceBefore(s, SkipWs(s, i) + Len(d), d)
  ELSE <<s[i]>> \o RemoveSpaceBefore(s, i + 1, d)

Bold2 == <<STAR, STAR>>
Italic1 == <<STAR>>
Strike2 == <<TILDE, TILDE>>

\* the k-th of the six substitutions, in the order of the source
CleanupStep(k, md) ==
  CASE k = 1 -> RemoveSpaceAfter(md, 1, Bold2)
    [] k = 2 -> RemoveSpaceBefore(md, 1, Bold2)
    [] k = 3 -> RemoveSpaceAfter(md, 1, Italic1)
    [] k = 4 -> RemoveSpaceBefore(md, 1, Italic1)
    [] k = 5 -> RemoveSpaceAfter(md, 1, Strike2)
    [] OTHER -> RemoveSpaceBefore(md, 1, Strike2)

Cleanup(md) ==
  CleanupStep(6, CleanupStep(5, CleanupStep(4, CleanupStep(3, CleanupStep(2, CleanupStep(1, md))))))

ExportFaults == {"none", "getHTML", "turndown", "cleanup"}

\* an export whose catch returns the empty string
GetMarkdownNoFallback(d, fault) ==
  IF fault = "none" THEN Cleanup(Turndown(GetHTML(d))) ELSE <<>>

\* getMarkdownFromEditor on an existing editor; fault names the call that throws
GetMarkdownFromEditor(d, fault) ==
  IF fault = "none" THEN Cleanup(Turndown(GetHTML(d)))
  ELSE TextContent(d)

(* ---------------- marked.parse(markdown, {breaks, gfm}) ---------------- *)

IsBlank(line) == \A k \in 1..Len(line) : line[k] \in Ws

\* consecutive non-blank lines form a paragraph
RECURSIVE Paragraphs(_, _)
Paragraphs(lines, cur) ==
  IF lines = <<>> THEN (IF cur = <<>> THEN <<>> ELSE <<JoinLines(cur)>>)
  ELSE IF IsBlank(lines[1])
       THEN (IF cur = <<>> THEN <<>> ELSE <<JoinLines(cur)>>) \o Paragraphs(Tail(lines), <<>>)
  ELSE Paragraphs(Tail(lines), cur \o <<Trim(lines[1])>>)

RECURSIVE RunLength(_, _, _)
RunLength(s, i, c) == IF i <= Len(s) /\ s[i] = c THEN 1 + RunLength(s, i + 1, c) ELSE 0

\* an odd number of backslashes before position j escapes it
RECURSIVE Escaped(_, _)
Escaped(s, j) == j > 1 /\ s[j - 1] = BSL /\ ~Escaped(s, j - 1)

Repeat(c, n) == [k \in 1..n |-> c]

\* the closing delimiter run of d characters c for an opener whose content starts at from
StarCloser(s, from, d) ==
  {j \in (from + 1)..Len(s) : /\ StartsWith(s, j, Repeat(STAR, d))
                              /\ s[j - 1] \notin Ws
                              /\ ~Escaped(s, j)}
TildeCloser(s, from, d) ==
  {j \in (from + 1)..Len(s) : /\ StartsWith(s, j, Repeat(TILDE, d))
                              /\ s[j - 1] \notin Ws \cup {TILDE}
                              /\ (j + d > Len(s) \/ s[j + d] # TILDE)
                              /\ ~Escaped(s, j)}
Min(S) == CHOOSE x \in S : \A y \in S : x <= y

RECURSIVE Inline(_, _)
Inline(s, i) ==
  IF i > Len(s) THEN <<>>
  ELSE LET c == s[i]
       IN  IF c = BSL
           THEN (IF i < Len(s) /\ s[i + 1] \in {STAR, TILDE, BSL}
                 THEN <<s[i + 1]>> \o Inline(s, i + 2)
                 ELSE IF i < Len(s) /\ s[i + 1] = NL THEN <<BR>> \o Inline(s, i + 2)
                 ELSE <<BSL>> \o Inline(s, i + 1))
           ELSE IF c = NL THEN <<BR>> \o Inline(s, i + 1)
           ELSE IF c = STAR
           THEN LET r == RunLength(s, i, STAR)
                    d == IF r >= 3 THEN 3 ELSE r
                    opens == r <= 3 /\ i + d <= Len(s) /\ s[i + d] \notin Ws
                    js == IF opens THEN StarCloser(s, i + d, d) ELSE {}
                IN  IF js = {} THEN <<STAR>> \o Inline(s, i + 1)
                    ELSE LET j == Min(js)
                             inner == Inline(Sub(s, i + d, j - 1), 1)
                         IN  (CASE d = 1 -> <<"<em>">> \o inner \o <<"</em>">>
                                [] d = 2 -> <<"<strong>">> \o inner \o <<"</strong>">>
                                [] OTHER -> <<"<em>", "<strong>">> \o inner \o <<"</strong>", "</em>">>)
                               \o Inline(s, j + d)
           ELSE IF c = TILDE
           THEN LET r == RunLength(s, i, TILDE)
                    opens == r <= 2 /\ i + r <= Len(s) /\ s[i + r] \notin Ws
                    js == IF opens THEN TildeCloser(s, i + r, r) ELSE {}
                IN  IF js = {} THEN Repeat(TILDE, r) \o Inline(s, i + r)
                    ELSE LET j == Min(js)
                         IN  <<"<s>">> \o Inline(Sub(s, i + r, j - 1), 1) \o <<"</s>">>
                               \o Inline(s, j + r)
           ELSE <<c>> \o Inline(s, i + 1)

MarkedParse(md) ==
  LET ps == Paragraphs(SplitLines(md), <<>>)
  IN  Flatten([k \in 1..Len(ps) |-> <<POpen>> \o Inline(ps[k], 1) \o <<PClose>>])

(* ---------------- the editor's HTML parser (setContent, content:) ---------------- *)

\* whitespace is collapsed; none at the start of a block, after a space or a
\* hard break, or at the end of a block
RECURSIVE CollapseNodes(_, _, _)
CollapseNodes(items, out, drop) ==
  IF items = <<>>
  THEN (IF out # <<>> /\ out[Len(out)].ch = SP THEN Sub(out, 1, Len(out) - 1) ELSE out)
  ELSE LET n == items[1]
       IN  IF n.ch \in Ws
           THEN CollapseNodes(Tail(items), IF drop THEN out ELSE out \o <<Node(SP, n.marks)>>, TRUE)
           ELSE CollapseNodes(Tail(items), out \o <<n>>, n.ch = BR)

RECURSIVE ParseTokens(_, _, _, _, _)
ParseTokens(toks, blocks, cur, open, stack) ==
  IF toks = <<>> THEN (IF open THEN blocks \o <<cur>> ELSE blocks)
  ELSE LET t == toks[1]
           rest == Tail(toks)
           ms == {stack[k] : k \in 1..Len(stack)}
       IN  IF t = POpen
           THEN ParseTokens(rest, IF open THEN blocks \o <<cur>> ELSE blocks, <<>>, TRUE, stack)
           ELSE IF t = PClose
           THEN ParseTokens(rest, IF open THEN blocks \o <<cur>> ELSE blocks, <<>>, FALSE, stack)
           ELSE IF IsOpenTag(t) THEN ParseTokens(rest, blocks, cur, open, stack \o <<MarkOfTag(t)>>)
           ELSE IF IsCloseTag(t)
           THEN ParseTokens(rest, blocks, cur, open, Sub(stack, 1, Len(stack) - 1))
           ELSE IF t \in Ws /\ ~open THEN ParseTokens(rest, blocks, cur, open, stack)
           ELSE ParseTokens(rest, blocks, (IF open THEN cur ELSE <<>>) \o <<Node(t, ms)>>, TRUE, stack)

\* the document a string of HTML parses to; a document has at least one paragraph
ParseHTML(html) ==
  LET blocks == ParseTokens(html, <<>>, <<>>, FALSE, <<>>)
  IN  IF blocks = <<>> THEN EmptyDoc
      ELSE [k \in 1..Len(blocks) |-> CollapseNodes(blocks[k], <<>>, TRUE)]

(* ---------------- positions and selection ---------------- *)

\* the position just inside paragraph k: resolve(pos).start(1) for a position in it
RECURSIVE BlockStart(_, _)
BlockStart(d, k) == IF k = 1 THEN 1 ELSE BlockStart(d, k - 1) + Len(d[k - 1]) + 2

BlockOf(d, pos) ==
  CHOOSE k \in 1..Len(d) : BlockStart(d, k) <= pos /\ pos <= BlockStart(d, k) + Len(d[k])
ValidPos(d) == UNION {{BlockStart(d, k) + o : o \in 0..Len(d[k])} : k \in 1..Len(d)}
EndPos(d) == BlockStart(d, Len(d)) + Len(d[Len(d)])
DocSize(d) == EndPos(d) + 1
NodeCount(d) == Len(Flatten(d))

\* the inline nodes of d between the positions from and to, as <<block, index>>
InRange(d, from, to) ==
  {<<k, o>> \in (1..Len(d)) \X (1..DocSize(d)) :
      o <= Len(d[k]) /\ from <= BlockStart(d, k) + o - 1 /\ BlockStart(d, k) + o <= to}

(* ---------------- toggleBold ---------------- *)

\* isMarkActive on a range: text nodes, and other inline nodes that carry a mark, are counted
BoldActive(d, from, to) ==
  \A p \in InRange(d, from, to) :
     LET n == d[p[1]][p[2]]
     IN  (n.ch # BR \/ n.marks # {}) => "bold" \in n.marks

SetBold(d, from, to, on) ==
  [k \in 1..Len(d) |->
     [o \in 1..Len(d[k]) |->
        IF <<k, o>> \in InRange(d, from, to)
        THEN Node(d[k][o].ch, IF on THEN d[k][o].marks \cup {"bold"} ELSE d[k][o].marks \ {"bold"})
        ELSE d[k][o]]]

\* a button that only ever sets the mark
ToggleBoldAlwaysSet(d, from, to) == SetBold(d, from, to, TRUE)

\* toggleMark on a range: unsetMark when the mark is active on it, setMark otherwise
ToggleBoldDoc(d, from, to) == SetBold(d, from, to, ~BoldActive(d, from, to))

\* ResolvedPos.marks(): the marks of the node before the cursor, else of the node after
MarksAt(d, pos) ==
  LET k == BlockOf(d, pos)
      o == pos - BlockStart(d, k)
  IN  IF d[k] = <<>> THEN {}
      ELSE IF o >= 1 THEN d[k][o].marks ELSE d[k][1].marks

InsertAt(d, pos, n) ==
  LET k == BlockOf(d, pos)
      o == pos - BlockStart(d, k)
  IN  [d EXCEPT ![k] = Sub(d[k], 1, o) \o <<n>> \o From(d[k], o + 1)]

(* ---------------- setMarkdownToEditor ---------------- *)

ImportFaults == {"none", "marked", "setContentHtml", "setContentAll"}

\* setMarkdownToEditor on an existing editor.  fault names what throws: nothing,
\* marked.parse, setContent of the parsed HTML only, or every setContent.
\* setContent replaces the whole document and emits one update event.
SetMarkdownToEditor(d, md, fault) ==
  CASE fault = "none" -> [doc |-> ParseHTML(MarkedParse(md)), threw |-> FALSE, updated |-> TRUE]
    [] fault \in {"marked", "setContentHtml"} ->
         [doc |-> ParseHTML(md), threw |-> FALSE, updated |-> TRUE]
    [] OTHER -> [doc |-> d, threw |-> TRUE, updated |-> FALSE]

\* Array.prototype.splice(lineNumber, 1, text): a negative index counts from the
\* end, an index past the end appends
SetLineSplice(lines, n, text) ==
  IF n < 0 THEN (IF -n <= Len(lines) THEN [lines EXCEPT ![Len(lines) + n + 1] = text]
                 ELSE [lines EXCEPT ![1] = text])
  ELSE IF n < Len(lines) THEN [lines EXCEPT ![n + 1] = text]
  ELSE lines \o <<text>>

\* lines[lineNumber] = text on a JavaScript array, then join: a negative index
\* sets a property and no element, an index past the end leaves holes that join as ""
SetLineArray(lines, n, text) ==
  IF n < 0 THEN lines
  ELSE IF n < Len(lines) THEN [lines EXCEPT ![n + 1] = text]
  ELSE lines \o [k \in 1..(n - Len(lines)) |-> <<>>] \o <<text>>

\* lines[lineNumber] ?? ""
GetLineArray(lines, n) == IF 0 <= n /\ n < Len(lines) THEN lines[n + 1] ELSE <<>>

(* ---------------- bounds and inputs ---------------- *)

MaxNodes == 3
MaxLine == 2
MaxSetLineNodes == 2

Undefined == <<"undefined">>
MdBoldText == <<STAR, STAR, "a", STAR, STAR, SP, "a">>
MdStrike == <<TILDE, TILDE, "a", TILDE, TILDE>>
MdTwoParagraphs == <<"a", NL, NL, "a">>
MdItalic == <<STAR, "a", STAR>>
MdInputs == {MdBoldText, MdStrike, MdTwoParagraphs, MdItalic, <<>>}
LineTexts == {<<"a">>, <<>>}
TypedChars == {"a", SP, TILDE}

(* ---------------- the component ---------------- *)

VARIABLES
  mounted,               \* the component has rendered
  editor,                \* the editor instance exists (useEditor's value is not null)
  effectPending,         \* the [initialContent] effect of the last render has not run yet
  initialContent,        \* the prop
  doc,                   \* editor.state.doc
  sel,                   \* editor.state.selection
  storedMarks,           \* editor.state.storedMarks
  exportFault,           \* the call of the export pipeline that throws, if any
  lastCall,              \* the operation of the last step and its arguments
  ret,                   \* what it returned
  threw,                 \* whether it let an exception out
  onContentChangeCalls,  \* the arguments of the onContentChange calls it made
  importerCalls,         \* the markdown of the setMarkdownToEditor calls it made
  markdown,              \* the local variable of getMarkdownFromEditor
  step                   \* how many of its substitutions have been applied

vars == <<mounted, editor, effectPending, initialContent, doc, sel, storedMarks, exportFault,
          lastCall, ret, threw, onContentChangeCalls, importerCalls, markdown, step>>

NoStoredMarks == {"null"}
Call(op, n, text, before, fault) ==
  [op |-> op, n |-> n, text |-> text, before |-> before, fault |-> fault]
Cursor(pos) == [anchor |-> pos, head |-> pos]
SelFrom == IF sel.anchor <= sel.head THEN sel.anchor ELSE sel.head
SelTo == IF sel.anchor <= sel.head THEN sel.head ELSE sel.anchor

\* an onUpdate that exports the document it captured before the change
OnUpdateStale(d) == <<GetMarkdownFromEditor(doc, exportFault)>>

\* onUpdate: one callback call with the export of the updated document
OnUpdate(d) == <<GetMarkdownFromEditor(d, exportFault)>>

\* useEditor({content: initialContent || ""}): the string is parsed as HTML
InitialDoc(ic) == ParseHTML(IF ic = Undefined THEN <<>> ELSE ic)

Init ==
  /\ mounted = FALSE
  /\ editor = FALSE
  /\ effectPending = FALSE
  /\ initialContent = Undefined
  /\ doc = EmptyDoc
  /\ sel = Cursor(1)
  /\ storedMarks = NoStoredMarks
  /\ exportFault \in ExportFaults
  /\ lastCall = Call("none", 0, <<>>, <<>>, "none")
  /\ ret = <<>>
  /\ threw = FALSE
  /\ onContentChangeCalls = <<>>
  /\ importerCalls = <<>>
  /\ markdown = <<>>
  /\ step = 0

Quiet == /\ ret' = <<>>
         /\ threw' = FALSE
         /\ onContentChangeCalls' = <<>>
         /\ importerCalls' = <<>>

\* the first render; with immediate the editor exists in it
Mount(ic, immediate) ==
  /\ ~mounted
  /\ mounted' = TRUE
  /\ initialContent' = ic
  /\ editor' = immediate
  /\ doc' = IF immediate THEN InitialDoc(ic) ELSE doc
  /\ effectPending' = TRUE
  /\ lastCall' = Call("mount", 0, <<>>, <<>>, "none")
  /\ Quiet
  /\ UNCHANGED <<sel, storedMarks, exportFault, markdown, step>>

\* useEditor creates the editor after the first commit
CreateEditor ==
  /\ mounted /\ ~editor /\ ~effectPending
  /\ editor' = TRUE
  /\ doc' = InitialDoc(initialContent)
  /\ sel' = Cursor(1)
  /\ lastCall' = Call("createEditor", 0, <<>>, <<>>, "none")
  /\ Quiet
  /\ UNCHANGED <<mounted, effectPending, initialContent, storedMarks, exportFault, markdown, step>>

\* a call of setMarkdownToEditor as part of a step
Import(md, fault) ==
  LET r == SetMarkdownToEditor(doc, md, fault)
  IN  /\ doc' = r.doc
      /\ threw' = r.threw
      /\ sel' = IF r.updated THEN Cursor(EndPos(r.doc)) ELSE sel
      /\ storedMarks' = IF r.updated THEN NoStoredMarks ELSE storedMarks
      /\ onContentChangeCalls' = IF r.updated THEN OnUpdate(r.doc) ELSE <<>>
      /\ importerCalls' = <<md>>

\* an effect that imports without comparing
RunEffectAlways ==
  /\ effectPending
  /\ effectPending' = FALSE
  /\ ret' = <<>>
  /\ \/ /\ editor /\ initialContent # Undefined
        /\ \E f \in ImportFaults :
             Import(initialContent, f) /\ lastCall' = Call("effect", 0, <<>>, <<>>, f)
     \/ /\ ~(editor /\ initialContent # Undefined)
        /\ lastCall' = Call("effect", 0, <<>>, <<>>, "none")
        /\ threw' = FALSE /\ onContentChangeCalls' = <<>> /\ importerCalls' = <<>>
        /\ UNCHANGED <<doc, sel, storedMarks>>
  /\ UNCHANGED <<mounted, editor, initialContent, exportFault, markdown, step>>

\* useEffect(..., [initialContent])
RunEffect ==
  /\ effectPending
  /\ effectPending' = FALSE
  /\ ret' = <<>>
  /\ \/ /\ editor /\ initialContent # Undefined
        /\ GetMarkdownFromEditor(doc, exportFault) # initialContent
        /\ \E f \in ImportFaults :
             Import(initialContent, f) /\ lastCall' = Call("effect", 0, <<>>, <<>>, f)
     \/ /\ ~(editor /\ initialContent # Undefined
               /\ GetMarkdownFromEditor(doc, exportFault) # initialContent)
        /\ lastCall' = Call("effect", 0, <<>>, <<>>, "none")
        /\ threw' = FALSE /\ onContentChangeCalls' = <<>> /\ importerCalls' = <<>>
        /\ UNCHANGED <<doc, sel, storedMarks>>
  /\ UNCHANGED <<mounted, editor, initialContent, exportFault, markdown, step>>

\* the parent renders the component with another initialContent
Rerender(v) ==
  /\ mounted /\ ~effectPending
  /\ v # initialContent
  /\ initialContent' = v
  /\ effectPending' = TRUE
  /\ lastCall' = Call("rerender", 0, v, <<>>, "none")
  /\ Quiet
  /\ UNCHANGED <<mounted, editor, doc, sel, storedMarks, exportFault, markdown, step>>

\* the parent passes the markdown it was just given back as initialContent
Echo ==
  /\ mounted /\ ~effectPending
  /\ onContentChangeCalls # <<>>
  /\ onContentChangeCalls[Len(onContentChangeCalls)] # initialContent
  /\ initialContent' = onContentChangeCalls[Len(onContentChangeCalls)]
  /\ effectPending' = TRUE
  /\ lastCall' = Call("echo", 0, onContentChangeCalls[Len(onContentChangeCalls)], <<>>, "none")
  /\ Quiet
  /\ UNCHANGED <<mounted, editor, doc, sel, storedMarks, exportFault, markdown, step>>

Ready == mounted /\ ~effectPending

\* editorActions.setContent
SetContent(text) ==
  /\ Ready
  /\ ret' = <<>>
  /\ \/ /\ editor
        /\ \E f \in ImportFaults :
             Import(text, f) /\ lastCall' = Call("setContent", 0, text, <<>>, f)
     \/ /\ ~editor
        /\ lastCall' = Call("setContent", 0, text, <<>>, "none")
        /\ threw' = FALSE /\ onContentChangeCalls' = <<>> /\ importerCalls' = <<>>
        /\ UNCHANGED <<doc, sel, storedMarks>>
  /\ UNCHANGED <<mounted, editor, effectPending, initialContent, exportFault, markdown, step>>

\* editorActions.getContent
GetContent ==
  /\ Ready
  /\ lastCall' = Call("getContent", 0, <<>>, <<>>, "none")
  /\ ret' = IF editor THEN GetMarkdownFromEditor(doc, exportFault) ELSE <<>>
  /\ threw' = FALSE /\ onContentChangeCalls' = <<>> /\ importerCalls' = <<>>
  /\ UNCHANGED <<mounted, editor, effectPending, initialContent, doc, sel, storedMarks,
                 exportFault, markdown, step>>

\* editorActions.getLine
GetLine(n) ==
  /\ Ready
  /\ lastCall' = Call("getLine", n, <<>>, <<>>, "none")
  /\ ret' = IF editor
            THEN GetLineArray(SplitLines(GetMarkdownFromEditor(doc, exportFault)), n)
            ELSE <<>>
  /\ threw' = FALSE /\ onContentChangeCalls' = <<>> /\ importerCalls' = <<>>
  /\ UNCHANGED <<mounted, editor, effectPending, initialContent, doc, sel, storedMarks,
                 exportFault, markdown, step>>

\* editorActions.setLine
SetLine(n, text) ==
  /\ Ready
  /\ NodeCount(doc) <= MaxSetLineNodes
  /\ ret' = <<>>
  /\ \/ /\ editor
        /\ LET lines == SetLineArray(SplitLines(GetMarkdownFromEditor(doc, exportFault)), n, text)
           IN  \E f \in ImportFaults :
                  Import(JoinLines(lines), f) /\ lastCall' = Call("setLine", n, text, <<>>, f)
     \/ /\ ~editor
        /\ lastCall' = Call("setLine", n, text, <<>>, "none")
        /\ threw' = FALSE /\ onContentChangeCalls' = <<>> /\ importerCalls' = <<>>
        /\ UNCHANGED <<doc, sel, storedMarks>>
  /\ UNCHANGED <<mounted, editor, effectPending, initialContent, exportFault, markdown, step>>

\* resolvedPos.start(1) - 1 for the selection's anchor
CursorLineNumber(d, anchor) == BlockStart(d, BlockOf(d, anchor)) - 1

\* editorActions.getCursorLineNumber
GetCursorLineNumber ==
  /\ Ready
  /\ lastCall' = Call("getCursorLineNumber", 0, <<>>, <<>>, "none")
  /\ ret' = IF editor THEN CursorLineNumber(doc, sel.anchor) ELSE 0
  /\ threw' = FALSE /\ onContentChangeCalls' = <<>> /\ importerCalls' = <<>>
  /\ UNCHANGED <<mounted, editor, effectPending, initialContent, doc, sel, storedMarks,
                 exportFault, markdown, step>>

\* editorActions.setCursorPosition, or the user selecting text
SetCursorPosition(startPos, endPos) ==
  /\ Ready /\ editor
  /\ startPos \in ValidPos(doc) /\ endPos \in ValidPos(doc) /\ startPos <= endPos
  /\ startPos < endPos => NodeCount(doc) <= MaxNodes
  /\ sel' = [anchor |-> startPos, head |-> endPos]
  /\ sel' # sel
  /\ storedMarks' = NoStoredMarks
  /\ lastCall' = Call("setCursorPosition", 0, <<>>, <<>>, "none")
  /\ Quiet
  /\ UNCHANGED <<mounted, editor, effectPending, initialContent, doc, exportFault, markdown, step>>

\* the toolbar's Bold button: editor.chain().focus().toggleBold().run()
ToggleBold ==
  /\ Ready /\ editor
  /\ lastCall' = Call("toggleBold", IF lastCall.op = "toggleBold" THEN 2 ELSE 1, <<>>, doc, "none")
  /\ ret' = <<>> /\ threw' = FALSE /\ importerCalls' = <<>>
  /\ \/ /\ SelFrom = SelTo
        /\ storedMarks' =
             LET cur == IF storedMarks = NoStoredMarks THEN MarksAt(doc, SelFrom) ELSE storedMarks
             IN  IF "bold" \in cur THEN cur \ {"bold"} ELSE cur \cup {"bold"}
        /\ onContentChangeCalls' = <<>>
        /\ UNCHANGED doc
     \/ /\ SelFrom < SelTo
        /\ doc' = ToggleBoldDoc(doc, SelFrom, SelTo)
        /\ storedMarks' = NoStoredMarks
        /\ onContentChangeCalls' = IF doc' # doc THEN OnUpdate(doc') ELSE <<>>
  /\ UNCHANGED <<mounted, editor, effectPending, initialContent, sel, exportFault, markdown, step>>

\* the user types a character at the cursor
TypeChar(c) ==
  /\ Ready /\ editor
  /\ SelFrom = SelTo
  /\ NodeCount(doc) < MaxNodes
  /\ doc' = InsertAt(doc, SelFrom,
                     Node(c, IF storedMarks = NoStoredMarks THEN MarksAt(doc, SelFrom)
                             ELSE storedMarks))
  /\ sel' = Cursor(SelFrom + 1)
  /\ storedMarks' = NoStoredMarks
  /\ lastCall' = Call("type", 0, <<c>>, <<>>, "none")
  /\ ret' = <<>> /\ threw' = FALSE /\ importerCalls' = <<>>
  /\ onContentChangeCalls' = OnUpdate(doc')
  /\ UNCHANGED <<mounted, editor, effectPending, initialContent, exportFault, markdown, step>>

MountInputs == MdInputs \cup {Undefined}

\* the component's life: renders, effects, the parent's updates, typing
Next ==
  \/ \E ic \in MountInputs, immediate \in BOOLEAN : Mount(ic, immediate)
  \/ CreateEditor
  \/ RunEffect
  \/ \E v \in MdInputs : Rerender(v)
  \/ Echo
  \/ \E c \in TypedChars : TypeChar(c)

Spec == Init /\ [][Next]_vars

\* a parent driving the imperative handle of a mounted editor
NextHandle ==
  \/ \E immediate \in BOOLEAN : Mount(MdTwoParagraphs, immediate)
  \/ CreateEditor
  \/ RunEffect
  \/ \E text \in MdInputs : SetContent(text)
  \/ GetContent
  \/ \E n \in -1..MaxLine : GetLine(n)
  \/ \E n \in -1..MaxLine, text \in LineTexts : SetLine(n, text)
  \/ GetCursorLineNumber
  \/ \E a \in ValidPos(doc) : SetCursorPosition(a, a)

SpecHandle == Init /\ [][NextHandle]_vars

\* a user selecting text and pressing the toolbar's Bold button
NextToolbar ==
  \/ \E ic \in MdInputs : Mount(ic, TRUE)
  \/ RunEffect
  \/ \E a \in ValidPos(doc), h \in ValidPos(doc) : SetCursorPosition(a, h)
  \/ ToggleBold
  \/ TypeChar("a")

\* the toolbar never exports; only the callback does, and here without failures
InitToolbar == Init /\ exportFault = "none"

SpecToolbar == InitToolbar /\ [][NextToolbar]_vars

(* ---------------- one export, substitution by substitution ---------------- *)

MaxCleanupNodes == 4
CleanupChars == {"a", SP, TILDE}
CleanupNodes == {Node(c, ms) : c \in CleanupChars, ms \in {{}, {"strike"}}}
NodeSeqs(n) == UNION {[1..k -> CleanupNodes] : k \in 0..n}

\* documents of one or two paragraphs with at most MaxCleanupNodes inline nodes
CleanupDocs ==
  {<<p>> : p \in NodeSeqs(MaxCleanupNodes)}
    \cup {<<p, q>> : p \in NodeSeqs(MaxCleanupNodes - 1), q \in NodeSeqs(1)}

InitCleanup ==
  /\ mounted = TRUE
  /\ editor = TRUE
  /\ effectPending = FALSE
  /\ initialContent = Undefined
  /\ doc \in CleanupDocs
  /\ sel = Cursor(1)
  /\ storedMarks = NoStoredMarks
  /\ exportFault = "none"
  /\ lastCall = Call("none", 0, <<>>, <<>>, "none")
  /\ ret = <<>>
  /\ threw = FALSE
  /\ onContentChangeCalls = <<>>
  /\ importerCalls = <<>>
  /\ markdown = <<>>
  /\ step = 0

\* let markdown = turndownService.turndown(editor.getHTML())
Serialize ==
  /\ lastCall.op = "none"
  /\ markdown' = Turndown(GetHTML(doc))
  /\ lastCall' = Call("export", 0, <<>>, <<>>, "none")
  /\ UNCHANGED <<mounted, editor, effectPending, initialContent, doc, sel, storedMarks,
                 exportFault, ret, threw, onContentChangeCalls, importerCalls, step>>

\* the next of the six replace calls
Substitute ==
  /\ lastCall.op = "export" /\ step < 6
  /\ markdown' = CleanupStep(step + 1, markdown)
  /\ step' = step + 1
  /\ UNCHANGED <<mounted, editor, effectPending, initialContent, doc, sel, storedMarks,
                 exportFault, lastCall, ret, threw, onContentChangeCalls, importerCalls>>

\* return markdown
Return ==
  /\ lastCall.op = "export" /\ step = 6
  /\ ret' = markdown
  /\ lastCall' = Call("getContent", 0, <<>>, <<>>, "none")
  /\ UNCHANGED <<mounted, editor, effectPending, initialContent, doc, sel, storedMarks,
                 exportFault, threw, onContentChangeCalls, importerCalls, markdown, step>>

NextCleanup == Serialize \/ Substitute \/ Return

SpecCleanup == InitCleanup /\ [][NextCleanup]_vars

(* ======================= the claims ======================= *)

Export(d) == GetMarkdownFromEditor(d, exportFault)
Imported(md) == ParseHTML(MarkedParse(md))

\* C1: every step that changes the document of an existing editor makes exactly
\* one onContentChange call, and the argument of any call a step makes is the
\* markdown exported from the document as it is after the step.
C1_EveryChangeReported ==
  [][/\ (editor /\ doc' # doc) => Len(onContentChangeCalls') = 1
     /\ Len(onContentChangeCalls') <= 1
     /\ onContentChangeCalls' # <<>> =>
          onContentChangeCalls'[1] =
            (IF exportFault = "none" THEN Cleanup(Turndown(GetHTML(doc'))) ELSE TextContent(doc'))]_vars

\* C1 witness: typing has changed a document with marks and was reported
C1_Witness ==
  /\ lastCall.op = "type"
  /\ exportFault = "none"
  /\ Len(onContentChangeCalls) = 1
  /\ Contains(onContentChangeCalls[1], <<STAR, "a", STAR>>)

\* the step that first populates the editor: its creation after the first commit, or
\* the first run of the effect when the editor exists in the first render
Populates == \/ lastCall'.op = "createEditor"
             \/ lastCall.op = "mount" /\ lastCall'.op = "effect" /\ editor

\* C2: once the editor exists and initialContent is populated, the document is the
\* import of initialContent (markdown -> HTML -> tree), for every ordering of
\* mount, editor creation and the effect.
C2_InitialContentImported ==
  [][(Populates /\ initialContent # Undefined /\ lastCall'.fault = "none" /\ exportFault = "none")
       => doc' = Imported(initialContent)]_vars

\* C3: when the effect runs on an existing editor, setMarkdownToEditor is called with
\* initialContent iff the exported markdown differs from it; when they are equal the
\* document is left alone; and the effect after an echo never re-imports.
C3_ReimportIffDifferent ==
  [][(lastCall'.op = "effect" /\ editor /\ initialContent # Undefined) =>
       /\ importerCalls' = (IF Export(doc) # initialContent THEN <<initialContent>> ELSE <<>>)
       /\ Export(doc) = initialContent => (doc' = doc /\ onContentChangeCalls' = <<>>)
       /\ lastCall.op = "echo" => (importerCalls' = <<>> /\ doc' = doc)]_vars

\* C3 witness: the effect has run after an echo of an emitted export and imported nothing
C3_Witness ==
  /\ lastCall.op = "effect"
  /\ editor
  /\ initialContent \notin MountInputs
  /\ importerCalls = <<>>
  /\ initialContent = Export(doc)
  /\ NodeCount(doc) >= 2

Words == {<<"a">>, <<"a", "a">>}
BoldOf(w) == <<STAR, STAR>> \o w \o <<STAR, STAR>>

\* the nodes o .. o + |w| - 1 of paragraph k spell w, are bold and nothing else, and
\* the nodes on either side are not bold
BoldRunAt(d, k, o, w) ==
  /\ o + Len(w) - 1 <= Len(d[k])
  /\ \A i \in 1..Len(w) : d[k][o + i - 1] = Node(w[i], {"bold"})
  /\ o > 1 => "bold" \notin d[k][o - 1].marks
  /\ o + Len(w) <= Len(d[k]) => "bold" \notin d[k][o + Len(w)].marks
HasBoldRun(d, w) == \E k \in 1..Len(d) : \E o \in 1..Len(d[k]) : BoldRunAt(d, k, o, w)

UniformBold(d, from, to) ==
  \/ \A p \in InRange(d, from, to) : "bold" \in d[p[1]][p[2]].marks
  \/ \A p \in InRange(d, from, to) : "bold" \notin d[p[1]][p[2]].marks

C6_ExportFallsBackToText ==
  [][exportFault # "none" =>
       /\ (lastCall'.op = "getContent" /\ editor) =>
            (ret' = TextContent(doc) /\ ~threw' /\ doc' = doc)
       /\ (lastCall'.op = "getLine" /\ editor) =>
            /\ ret' = (IF 0 <= lastCall'.n /\ lastCall'.n < Len(SplitLines(TextContent(doc)))
                       THEN SplitLines(TextContent(doc))[lastCall'.n + 1] ELSE <<>>)
            /\ ~threw' /\ doc' = doc
       /\ onContentChangeCalls' # <<>> => onContentChangeCalls'[1] = TextContent(doc')]_vars

\* C6 witness: getContent returned the plain text where the markdown differs from it
C6_Witness ==
  /\ lastCall.op = "getContent" /\ editor
  /\ exportFault = "turndown"
  /\ ret = <<"a", "a">>
  /\ Cleanup(Turndown(GetHTML(doc))) = <<"a", NL, NL, "a">>

\* C7: setMarkdownToEditor never lets an exception out, whatever fails during the
\* import, and after a failed import the document holds the raw markdown as content.
C7_ImportNeverThrows ==
  (lastCall.op \in {"setContent", "setLine", "effect"} /\ editor) =>
     /\ ~threw
     /\ (lastCall.op = "setContent" /\ lastCall.fault # "none") => doc = ParseHTML(lastCall.text)

\* every paragraph is a non-empty run of unmarked letters
PlainParagraphs(d) ==
  \A k \in 1..Len(d) : d[k] # <<>> /\ \A o \in 1..Len(d[k]) : d[k][o] = Node("a", {})

\* C8: getLine(getCursorLineNumber()) is the text of the line the cursor is on
\* (stated for documents of plain paragraphs, whose lines are their paragraphs).
C8_CursorLineIsMarkdownLine ==
  (/\ lastCall.op = "getCursorLineNumber" /\ editor
   /\ exportFault = "none" /\ PlainParagraphs(doc))
    => GetLineArray(SplitLines(Export(doc)), ret) = BlockText(doc[BlockOf(doc, sel.anchor)])

\* C9: with L the lines of the exported markdown before the call, setLine(n, text)
\* hands the importer L with entry n replaced by text: for 0 <= n < |L| the other
\* lines and the line count are unchanged; for n >= |L| the lines of L are kept and
\* text becomes line n; for n < 0 nothing changes.  getLine(n) is L[n], or "".
C9_SetLineReplacesOneLine ==
  [][LET L == SplitLines(Export(doc))
         n == lastCall'.n
     IN  /\ (lastCall'.op = "setLine" /\ editor) =>
              /\ Len(importerCalls') = 1
              /\ LET H == SplitLines(importerCalls'[1])
                 IN  /\ (0 <= n /\ n < Len(L)) =>
                           /\ Len(H) = Len(L)
                           /\ H[n + 1] = lastCall'.text
                           /\ \A i \in 1..Len(L) : i # n + 1 => H[i] = L[i]
                     /\ n >= Len(L) =>
                           /\ Len(H) = n + 1
                           /\ H[n + 1] = lastCall'.text
                           /\ \A i \in 1..Len(L) : H[i] = L[i]
                     /\ n < 0 => H = L
         /\ (lastCall'.op = "getLine" /\ editor) =>
              ret' = (IF 0 <= n /\ n < Len(L) THEN L[n + 1] ELSE <<>>)]_vars

\* C9 witness: the middle line of a three-line export was replaced
C9_Witness ==
  /\ lastCall.op = "setLine" /\ editor
  /\ lastCall.n = 1 /\ lastCall.text = <<"a">>
  /\ importerCalls = << <<"a", NL, "a", NL, "a">> >>

\* whitespace directly after or directly before an occurrence of d in s
SpaceAt(s, d) ==
  \E i \in 1..Len(s) :
     /\ StartsWith(s, i, d)
     /\ \/ i + Len(d) <= Len(s) /\ s[i + Len(d)] \in Ws
        \/ i > 1 /\ s[i - 1] \in Ws

\* C10: the markdown a successful export returns has no whitespace directly before
\* or after any **, any * or any ~~, whatever the serializer produced.
C10_NoSpaceAtDelimiters ==
  (lastCall.op = "getContent" /\ step = 6) =>
     /\ ret = Cleanup(Turndown(GetHTML(doc)))
     /\ ~SpaceAt(ret, Bold2) /\ ~SpaceAt(ret, Italic1) /\ ~SpaceAt(ret, Strike2)

\* the characters of s that are not whitespace, in order
RECURSIVE NonWs(_)
NonWs(s) ==
  IF s = <<>> THEN <<>>
  ELSE (IF s[1] \in Ws THEN <<>> ELSE <<s[1]>>) \o NonWs(Tail(s))

\* C11, first half: every substitution only deletes whitespace, so at every point
\* of the cleanup the non-whitespace characters of markdown are those of the
\* serializer output, in the same order.
C11_OnlyWhitespaceDeleted ==
  (lastCall.op \in {"export", "getContent"}) =>
     /\ NonWs(markdown) = NonWs(Turndown(GetHTML(doc)))
     /\ Len(markdown) <= Len(Turndown(GetHTML(doc)))

\* C11: the cleaned markdown is the serializer output with some whitespace removed
\* (same non-whitespace characters in the same order), and applying the cleanup
\* pass to the cleaned markdown a second time changes nothing.
C11_CleanupDeletesWhitespaceOnce ==
  (lastCall.op = "getContent" /\ step = 6) =>
     /\ NonWs(ret) = NonWs(Turndown(GetHTML(doc)))
     /\ Cleanup(ret) = ret

====
